---- MODULE Spec2Model ----
(***************************************************************************)
(* Reminder dispatch of the meeting-management backend.                    *)
(*                                                                         *)
(* Time is counted in minutes.  The store holds Meeting, MeetingParticipant*)
(* MeetingReminder, UserSettings, Notification and PushSubscription rows.  *)
(* The cron callback of jobs/reminderJob.ts runs processReminders; every   *)
(* await of that function is a step of a tick, so that the clock and the   *)
(* meeting operations of MeetingService interleave with it.  The methods   *)
(* of PushService and NotificationService.create are also given await by   *)
(* await, for the calls made outside the job.                              *)
(***************************************************************************)
EXTENDS Integers, Sequences, FiniteSets, TLC

(* ---------------------------- bounds ----------------------------------- *)
MaxTime == 2
MaxTicks == 2
MaxFailures == 1
MaxRows == 3
MaxOps == 2
MaxCreates == 2

(* ------------------------ program constants ---------------------------- *)
\* reminderJob.ts:34  oneMinuteLater = now + 60 * 1000 ms (one minute)
LookAhead == 1
\* reminderJob.ts:58  take: 100
BatchSize == 100
\* a nullable column holding no value
NULL == -1

Users == {"u1", "u2"}
NoUser == "none"
MeetingIds == {"m1"}
TickSlots == {"t1", "t2"}
Requests == {"q1", "q2"}
Channels == {"inApp", "email", "push"}
Endpoints == {"e1", "e2", "e3"}
\* what the push provider answers to a delivery: 201 accepted, 404 and 410
\* the endpoint is gone, 500 another error
Statuses == {201, 404, 410, 500}

\* MeetingParticipant rows of a meeting, in store order: two account-linked
\* participants and one invited by e-mail only (userId null).
ParticipantRows ==
  << [email |-> "a@x", userId |-> "u1"],
     [email |-> "b@x", userId |-> NoUser],
     [email |-> "c@x", userId |-> "u2"] >>

\* UserSettings: row = FALSE stands for "no row" (findUnique returns null).
NoSettings ==
  [row |-> FALSE, emailNotificationsEnabled |-> FALSE,
   pushNotificationsEnabled |-> FALSE, inAppNotificationsEnabled |-> FALSE]

SettingsRows ==
  [row : {TRUE}, emailNotificationsEnabled : BOOLEAN,
   pushNotificationsEnabled : BOOLEAN, inAppNotificationsEnabled : BOOLEAN]

\* validation.ts: reminderMinutesBefore is an array of numbers 0..10080
LeadLists == { <<1>>, <<0>>, <<1, 0>> }
\* the lists the requests of SpecOps carry
OpLeadLists == { <<1>>, <<1, 0>> }
\* the lists the requests of SpecLeads carry
RepeatLeadLists == { <<1>>, <<1, 0>>, <<1, 1>> }
StartTimes == {1, 2}

VARIABLES
  now,            \* the clock (minutes)
  meetings,       \* Meeting rows: id -> [startTime, isCancelled, reminderMinutesBefore]
  participants,   \* MeetingParticipant rows: meeting id -> sequence of rows
  settings,       \* UserSettings: user -> row (or NoSettings)
  reminders,      \* MeetingReminder rows: id -> row
  nextId,         \* next fresh MeetingReminder id
  notifications,  \* Notification rows
  sends,          \* calls made to the email and push senders
  cronFired,      \* the cron callback of the current minute has run
  tickCount,      \* cron callbacks started so far
  tpc,            \* per tick: position in processReminders
  tid,            \* per tick: number of the callback it runs
  tnow,           \* per tick: const now = new Date()
  batch,          \* per tick: const reminders = await findMany(...)
  ri,             \* per tick: index of the reminder being processed
  pi,             \* per tick: index of the participant being processed
  tset,           \* per tick: const settings = await findUnique(...)
  outcome,        \* per tick: how each processed reminder of the batch ended
  failures,       \* store / transport failures injected so far
  deleted,        \* ids of the meetings that were deleted
  opCount,        \* MeetingService calls started so far
  opc,            \* per request: position in the MeetingService method
  oarg,           \* per request: meeting id, input and the row `updated`
  smtp,           \* EmailService.transporter is set (SMTP host and user configured)
  vapid,          \* PushService.isConfigured (VAPID keys configured)
  subs,           \* PushSubscription rows: endpoint -> userId
  ppc,            \* a call of sendToUser outside the job: its position
  puser,          \* that call: userId
  pfound,         \* that call: const subscriptions = await findMany(...)
  pres,           \* that call: const results = await Promise.allSettled(...)
  pstatus,        \* how the last call of sendToUser ended
  spc,            \* a call of PushService.subscribe: its position
  sarg,           \* that call: userId, endpoint and the row `existing`
  cpc,            \* a call of NotificationService.create: its position
  carg,           \* that call: userId and const settings = await findUnique(...)
  cret,           \* what the last call of create returned
  ccount          \* calls of create made outside the job so far

vars == << now, meetings, participants, settings, reminders, nextId,
           notifications, sends, cronFired, tickCount, tpc, tid, tnow, batch,
           ri, pi, tset, outcome, failures, deleted, opCount, opc, oarg,
           smtp, vapid, subs, ppc, puser, pfound, pres, pstatus, spc, sarg,
           cpc, carg, cret, ccount >>

storeVars == << meetings, participants, settings, reminders, nextId, deleted >>
opVars == << opCount, opc, oarg >>
tickVars == << tpc, tid, tnow, batch, ri, pi, tset, outcome >>
configVars == << smtp, vapid >>
pushVars == << ppc, puser, pfound, pres, pstatus >>
subscribeVars == << spc, sarg >>
createVars == << cpc, carg, cret, ccount >>
serviceVars == << configVars, pushVars, subscribeVars, createVars >>

(* ----------------------------- helpers --------------------------------- *)
Min(a, b) == IF a <= b THEN a ELSE b

\* the orders in which the store may return the rows of S
Orderings(S) ==
  { s \in [1..Cardinality(S) -> S] : \A i, j \in DOMAIN s : i # j => s[i] # s[j] }

\* findMany(... take: n)
Take(s, n) == SubSeq(s, 1, Min(n, Len(s)))

(* ------------------- MeetingService.createReminders -------------------- *)
\* scheduledFor = startTime - minutes * 60 * 1000
ScheduledFor(startTime, minutes) == startTime - minutes

\* a row inserted with a flag already set
NewReminderFlagged(m, startTime, minutes) ==
  [meetingId |-> m, minutesBefore |-> minutes,
   scheduledFor |-> ScheduledFor(startTime, minutes),
   sentAt |-> NULL, emailSent |-> FALSE, pushSent |-> FALSE,
   inAppCreated |-> TRUE]

\* the row createReminders builds; sentAt and the flags take the defaults of
\* the table (NULL, false)
NewReminder(m, startTime, minutes) ==
  [meetingId |-> m, minutesBefore |-> minutes,
   scheduledFor |-> ScheduledFor(startTime, minutes),
   sentAt |-> NULL, emailSent |-> FALSE, pushSent |-> FALSE,
   inAppCreated |-> FALSE]

\* createMany: one row per element of minutesBefore, with fresh ids
CreateReminders(rows, first, m, startTime, minutesBefore) ==
  [r \in (DOMAIN rows) \cup (first..(first + Len(minutesBefore) - 1)) |->
     IF r \in DOMAIN rows THEN rows[r]
     ELSE NewReminder(m, startTime, minutesBefore[r - first + 1])]

\* a deleteMany that removes nothing
KeepReminders(rows, m) == rows

\* deleteMany({ where: { meetingId } })
DeleteReminders(rows, m) ==
  [r \in { x \in DOMAIN rows : rows[x].meetingId # m } |-> rows[r]]

(* -------------------- processReminders: selection ---------------------- *)
\* variants of the where clause with one condition dropped or widened
EligibleCancelled(r, n) ==
  /\ reminders[r].scheduledFor <= n + LookAhead
  /\ reminders[r].sentAt = NULL
  /\ reminders[r].meetingId \in DOMAIN meetings
  /\ meetings[reminders[r].meetingId].startTime > n

EligibleResend(r, n) ==
  /\ reminders[r].scheduledFor <= n + LookAhead
  /\ reminders[r].meetingId \in DOMAIN meetings
  /\ meetings[reminders[r].meetingId].isCancelled = FALSE
  /\ meetings[reminders[r].meetingId].startTime > n

EligiblePast(r, n) ==
  /\ reminders[r].scheduledFor <= n + LookAhead
  /\ reminders[r].sentAt = NULL
  /\ reminders[r].meetingId \in DOMAIN meetings
  /\ meetings[reminders[r].meetingId].isCancelled = FALSE

EligibleWide(r, n) ==
  /\ reminders[r].scheduledFor <= n + LookAhead + LookAhead
  /\ reminders[r].sentAt = NULL
  /\ reminders[r].meetingId \in DOMAIN meetings
  /\ meetings[reminders[r].meetingId].isCancelled = FALSE
  /\ meetings[reminders[r].meetingId].startTime > n

\* a selection that leaves out the rows a running tick has taken and not yet
\* gone through (a claim made before dispatch)
EligibleUnclaimed(r, n) ==
  /\ reminders[r].scheduledFor <= n + LookAhead
  /\ reminders[r].sentAt = NULL
  /\ reminders[r].meetingId \in DOMAIN meetings
  /\ meetings[reminders[r].meetingId].isCancelled = FALSE
  /\ meetings[reminders[r].meetingId].startTime > n
  /\ \A x \in DOMAIN tpc :
       tpc[x] = "idle" \/ \A i \in ri[x]..Len(batch[x]) : batch[x][i].id # r

\* a selection without look-ahead: the fire time has passed
EligibleDue(r, n) ==
  /\ reminders[r].scheduledFor <= n
  /\ reminders[r].sentAt = NULL
  /\ reminders[r].meetingId \in DOMAIN meetings
  /\ meetings[reminders[r].meetingId].isCancelled = FALSE
  /\ meetings[reminders[r].meetingId].startTime > n

\* the where clause of findMany
Eligible(r, n) ==
  /\ reminders[r].scheduledFor <= n + LookAhead
  /\ reminders[r].sentAt = NULL
  /\ reminders[r].meetingId \in DOMAIN meetings
  /\ meetings[reminders[r].meetingId].isCancelled = FALSE
  /\ meetings[reminders[r].meetingId].startTime > n

EligibleSet(n) == { r \in DOMAIN reminders : Eligible(r, n) }

\* include: { meeting: { include: { participants: { include: { user } } } } }
Snapshot(r) ==
  [id |-> r,
   minutesBefore |-> reminders[r].minutesBefore,
   scheduledFor |-> reminders[r].scheduledFor,
   sentAt |-> reminders[r].sentAt,
   meetingId |-> reminders[r].meetingId,
   startTime |-> meetings[reminders[r].meetingId].startTime,
   isCancelled |-> meetings[reminders[r].meetingId].isCancelled,
   participants |-> participants[reminders[r].meetingId]]

SelectBatches(n) ==
  { [i \in DOMAIN Take(o, BatchSize) |-> Snapshot(Take(o, BatchSize)[i])] :
      o \in Orderings(EligibleSet(n)) }

(* -------------------- processReminders: preferences -------------------- *)
Toggle(s, ch) ==
  CASE ch = "inApp" -> s.inAppNotificationsEnabled
    [] ch = "email" -> s.emailNotificationsEnabled
    [] ch = "push"  -> s.pushNotificationsEnabled

\* a missing settings row read as "disabled"
JobEnabledStrict(s, ch) == s.row /\ Toggle(s, ch)

\* reminderJob.ts: if (!settings || settings.<channel>Enabled)
JobEnabled(s, ch) == (~s.row) \/ Toggle(s, ch)

\* a create that writes without looking at the settings
CreateDirect(s) == TRUE

\* NotificationService.create: if (!settings || settings.inAppNotificationsEnabled)
CreateEnabled(s) == (~s.row) \/ Toggle(s, "inApp")

\* the service sending whatever the preferences say
ExternalAlways(s, ch) == TRUE

\* sendExternalNotifications: user.settings?.<channel>Enabled !== false
ExternalEnabled(s, ch) == ~(s.row /\ ~Toggle(s, ch))

\* the loop not skipping anybody
HasAccountAny(p) == TRUE

\* if (!participant.userId) continue; if (!user) continue;
HasAccount(p) == p.userId # NoUser

\* the next participant the loop stops at after position k (Len + 1: none)
NextLinked(ps, k) ==
  IF \E j \in (k + 1)..Len(ps) : HasAccount(ps[j])
  THEN CHOOSE j \in (k + 1)..Len(ps) :
         /\ HasAccount(ps[j])
         /\ \A i \in (k + 1)..(j - 1) : ~HasAccount(ps[i])
  ELSE Len(ps) + 1

\* the awaits of one participant's iteration, in program order
Stages == << "inApp", "extEmail", "extPush", "email", "push" >>

StageOn(stage, job, fresh) ==
  CASE stage = "inApp"    -> JobEnabled(job, "inApp")
    [] stage = "extEmail" -> JobEnabled(job, "inApp") /\ ExternalEnabled(fresh, "email")
    [] stage = "extPush"  -> JobEnabled(job, "inApp") /\ ExternalEnabled(fresh, "push")
    [] stage = "email"    -> JobEnabled(job, "email")
    [] stage = "push"     -> JobEnabled(job, "push")

\* the first stage after position k that runs, or "next" when the iteration ends
StageAfter(k, job, fresh) ==
  IF \E j \in (k + 1)..Len(Stages) : StageOn(Stages[j], job, fresh)
  THEN Stages[CHOOSE j \in (k + 1)..Len(Stages) :
                /\ StageOn(Stages[j], job, fresh)
                /\ \A i \in (k + 1)..(j - 1) : ~StageOn(Stages[i], job, fresh)]
  ELSE "next"

StageIndex(stage) == CHOOSE j \in 1..Len(Stages) : Stages[j] = stage

(* ------------------ processReminders: the dispatch loop ---------------- *)
Cur(t) == batch[t][ri[t]]
CurParticipant(t) == Cur(t).participants[pi[t]]
CurUser(t) == CurParticipant(t).userId

\* prisma.userSettings.findUnique({ where: { userId } }): the row, or null
SettingsOf(u) == IF u \in DOMAIN settings THEN settings[u] ELSE NoSettings

\* a loop that marks the reminder as soon as one participant is done
AfterFirstParticipant(rec, k) ==
  IF k = 0 /\ NextLinked(rec.participants, 0) <= Len(rec.participants)
  THEN [pc |-> "settings", pi |-> NextLinked(rec.participants, 0)]
  ELSE [pc |-> "mark", pi |-> 0]

\* control after the iteration of participant k of reminder rec has ended
AfterParticipant(rec, k) ==
  IF NextLinked(rec.participants, k) <= Len(rec.participants)
  THEN [pc |-> "settings", pi |-> NextLinked(rec.participants, k)]
  ELSE [pc |-> "mark", pi |-> 0]

\* control at the head of the for loop over the batch b, at index i
EnterReminder(b, i) ==
  IF i > Len(b) THEN [pc |-> "idle", pi |-> 0]
  ELSE AfterParticipant(b[i], 0)

\* a catch block around the whole loop: the tick ends at the first exception
CatchAborts(b, i) == [pc |-> "idle", pi |-> 0]

\* the per-reminder catch block: log and go on with the next reminder
CatchReminder(b, i) == EnterReminder(b, i + 1)

\* the e-mail of the job sent outside a try block
PropagatesEmail(stage, ok) == stage = "email" /\ ~ok

\* try { await send } catch { console.error }: a rejected send goes nowhere
Propagates(stage, ok) == FALSE

Goto(t, c) ==
  /\ tpc' = [tpc EXCEPT ![t] = c.pc]
  /\ pi' = [pi EXCEPT ![t] = c.pi]

\* the iteration of the reminder at ri[t] ends with result res; c is where
\* control goes
EndReminder(t, res, c) ==
  /\ outcome' = [outcome EXCEPT ![t] = Append(@, res)]
  /\ ri' = [ri EXCEPT ![t] = @ + 1]
  /\ Goto(t, c)

\* an exception inside the try block of the reminder at ri[t]
Throw(t, res) == EndReminder(t, res, CatchReminder(batch[t], ri[t]))

\* the stage of the current participant after stage k has ended
Continue(t, k, job) ==
  /\ IF StageAfter(k, job, SettingsOf(CurUser(t))) = "next"
     THEN Goto(t, AfterParticipant(Cur(t), pi[t]))
     ELSE /\ tpc' = [tpc EXCEPT ![t] = StageAfter(k, job, SettingsOf(CurUser(t)))]
          /\ pi' = pi
  /\ UNCHANGED << ri, outcome >>

LowestIdle(t) ==
  /\ tpc[t] = "idle"
  /\ \A x \in TickSlots : tpc[x] = "idle" => (t = "t1" \/ x # "t1")

\* cron.schedule('* * * * *'): now = new Date(); reminders = await findMany()
TickSelect(t) ==
  /\ LowestIdle(t)
  /\ ~cronFired
  /\ tickCount < MaxTicks
  /\ cronFired' = TRUE
  /\ tickCount' = tickCount + 1
  /\ tid' = [tid EXCEPT ![t] = tickCount + 1]
  /\ tnow' = [tnow EXCEPT ![t] = now]
  /\ \E b \in SelectBatches(now) :
       /\ batch' = [batch EXCEPT ![t] = b]
       /\ tpc' = [tpc EXCEPT ![t] = EnterReminder(b, 1).pc]
       /\ pi' = [pi EXCEPT ![t] = EnterReminder(b, 1).pi]
  /\ ri' = [ri EXCEPT ![t] = 1]
  /\ outcome' = [outcome EXCEPT ![t] = << >>]
  /\ tset' = [tset EXCEPT ![t] = NoSettings]
  /\ UNCHANGED << now, opVars, serviceVars, subs, storeVars, notifications,
                  sends, failures >>

\* a callback without a try block: the rejection ends the job
CallbackRethrows(t) == "crashed"

\* try { await processReminders() } catch { console.error }: the callback
\* returns and the scheduler stays armed
CallbackCatches(t) == "idle"

\* findMany rejects: processReminders throws, the cron callback logs it
TickSelectFails(t) ==
  /\ LowestIdle(t)
  /\ ~cronFired
  /\ tickCount < MaxTicks
  /\ failures < MaxFailures
  /\ failures' = failures + 1
  /\ cronFired' = TRUE
  /\ tickCount' = tickCount + 1
  /\ tid' = [tid EXCEPT ![t] = tickCount + 1]
  /\ tnow' = [tnow EXCEPT ![t] = now]
  /\ batch' = [batch EXCEPT ![t] = << >>]
  /\ ri' = [ri EXCEPT ![t] = 1]
  /\ pi' = [pi EXCEPT ![t] = 0]
  /\ outcome' = [outcome EXCEPT ![t] = << >>]
  /\ tset' = [tset EXCEPT ![t] = NoSettings]
  /\ tpc' = [tpc EXCEPT ![t] = CallbackCatches(t)]
  /\ UNCHANGED << now, opVars, serviceVars, subs, storeVars, notifications,
                  sends >>

\* const settings = await prisma.userSettings.findUnique({ userId })
TickSettings(t) ==
  /\ tpc[t] = "settings"
  /\ tset' = [tset EXCEPT ![t] = SettingsOf(CurUser(t))]
  /\ Continue(t, 0, SettingsOf(CurUser(t)))
  /\ UNCHANGED << now, opVars, serviceVars, subs, storeVars, notifications,
                  sends, cronFired, tickCount, tid, tnow, batch, failures >>

TickSettingsThrows(t) ==
  /\ tpc[t] = "settings"
  /\ failures < MaxFailures
  /\ failures' = failures + 1
  /\ Throw(t, "threw:settings")
  /\ UNCHANGED << now, opVars, serviceVars, subs, storeVars, notifications,
                  sends, cronFired, tickCount, tid, tnow, batch, tset >>

\* a Notification row written for the current participant
NewNotification(t) ==
  [userId |-> CurUser(t), email |-> CurParticipant(t).email,
   relatedMeetingId |-> Cur(t).meetingId,
   minutesBefore |-> Cur(t).minutesBefore, tid |-> tid[t], rid |-> Cur(t).id,
   late |-> (now >= Cur(t).startTime)]

\* prisma.notification.create with relatedMeetingId: rejects when the meeting
\* row is gone (Notification_relatedMeetingId_fkey)
MeetingGone(t) ==
  /\ CreateEnabled(SettingsOf(CurUser(t)))
  /\ Cur(t).meetingId \notin DOMAIN meetings

\* notificationService.createMeetingReminder: create(), then the user and
\* meeting lookups of sendExternalNotifications.  res is what happens:
\* "ok", the write of create() rejects, or one of the lookups rejects.
TickInApp(t, res) ==
  /\ tpc[t] = "inApp"
  /\ res \in {"ok", "writeThrows", "lookupThrows"}
  /\ MeetingGone(t) => res = "ok"
  /\ IF res = "ok" THEN failures' = failures
     ELSE failures < MaxFailures /\ failures' = failures + 1
  /\ notifications' =
       IF res # "writeThrows" /\ CreateEnabled(SettingsOf(CurUser(t)))
          /\ ~MeetingGone(t)
       THEN notifications \cup {NewNotification(t)}
       ELSE notifications
  /\ IF res = "ok" /\ ~MeetingGone(t)
     THEN Continue(t, StageIndex("inApp"), tset[t])
     ELSE Throw(t, IF res = "lookupThrows" THEN "threw:lookup" ELSE "threw:inApp")
  /\ UNCHANGED << now, opVars, serviceVars, subs, storeVars, sends, cronFired,
                  tickCount, tid, tnow, batch, tset >>

(* ----------------------- EmailService, PushService -------------------- *)
\* prisma.pushSubscription.findMany({ where: { userId } }): the endpoints
SubsOf(table, u) == { e \in DOMAIN table : table[e] = u }

\* every rejected delivery taken as a dead endpoint
IsRejected(status) == status # 201

\* error.statusCode === 404 || error.statusCode === 410
IsGone(status) == status = 404 \/ status = 410

\* failedEndpoints, from the results of the deliveries
FailedEndpoints(results) == { e \in DOMAIN results : IsGone(results[e]) }

\* deleteMany({ where: { endpoint: { in: endpoints } } })
DeleteEndpoints(table, endpoints) ==
  [e \in (DOMAIN table) \ endpoints |-> table[e]]

\* Promise.all: rejects as soon as one delivery rejects
AllFulfilled(results) == \A e \in DOMAIN results : results[e] = 201

\* Promise.allSettled: resolves whatever the deliveries do
AllSettled(results) == TRUE

\* a sender that rejects when it has no transport
EmailRequiresTransport(to) == { [ok |-> FALSE, contacts |-> {}, subs |-> subs] }

\* EmailService.sendMeetingReminder / sendMeetingNotification as one step:
\* the ways the call can end.  Without transporter it logs and returns; with
\* one, sendMail is called and resolves or rejects.
EmailOutcomes(to) ==
  IF ~smtp THEN { [ok |-> TRUE, contacts |-> {}, subs |-> subs] }
  ELSE { [ok |-> b, contacts |-> {to}, subs |-> subs] : b \in BOOLEAN }

\* PushService.sendToUser as one step: the ways the call can end.  Not
\* configured: it logs and returns.  Configured: findMany rejects; or every
\* subscription found gets a delivery, the gone ones are deleted and the call
\* returns; or the deliveries are made and deleteMany rejects.
PushOutcomes(u) ==
  IF ~vapid THEN { [ok |-> TRUE, contacts |-> {}, subs |-> subs] }
  ELSE { [ok |-> FALSE, contacts |-> {}, subs |-> subs] }
       \cup { [ok |-> TRUE, contacts |-> SubsOf(subs, u),
               subs |-> DeleteEndpoints(subs, FailedEndpoints(r))] :
                 r \in [SubsOf(subs, u) -> Statuses] }
       \cup { [ok |-> FALSE, contacts |-> SubsOf(subs, u), subs |-> subs] :
                 r \in { x \in [SubsOf(subs, u) -> Statuses] :
                           FailedEndpoints(x) # {} } }

\* one call of a sender (email or push) for the current participant;
\* contacts: the addresses or endpoints handed to the transport
SendEvent(t, ch, via, ok, contacts) ==
  [tid |-> tid[t], rid |-> Cur(t).id, meetingId |-> Cur(t).meetingId,
   userId |-> CurUser(t), email |-> CurParticipant(t).email,
   chan |-> ch, via |-> via, ok |-> ok, contacts |-> contacts,
   late |-> (now >= Cur(t).startTime)]

SenderOutcomes(t, ch) ==
  IF ch = "email" THEN EmailOutcomes(CurParticipant(t).email)
  ELSE PushOutcomes(CurUser(t))

SenderStep(t, stage, ch, via, ok) ==
  /\ tpc[t] = stage
  /\ IF ok THEN failures' = failures
     ELSE failures < MaxFailures /\ failures' = failures + 1
  /\ \E o \in { x \in SenderOutcomes(t, ch) : x.ok = ok } :
       /\ sends' = sends \cup {SendEvent(t, ch, via, ok, o.contacts)}
       /\ subs' = o.subs
  /\ IF Propagates(stage, ok) THEN Throw(t, "threw:sender")
     ELSE Continue(t, StageIndex(stage), tset[t])
  /\ UNCHANGED << now, opVars, serviceVars, storeVars, notifications,
                  cronFired, tickCount, tid, tnow, batch, tset >>

\* sendExternalNotifications: emailService.sendMeetingNotification
TickExtEmail(t, ok) == SenderStep(t, "extEmail", "email", "service", ok)

\* sendExternalNotifications: pushService.sendToUser
TickExtPush(t, ok) == SenderStep(t, "extPush", "push", "service", ok)

\* reminderJob.ts: emailService.sendMeetingReminder
TickEmail(t, ok) == SenderStep(t, "email", "email", "job", ok)

\* reminderJob.ts: pushService.sendToUser
TickPush(t, ok) == SenderStep(t, "push", "push", "job", ok)

\* an update that records the time only
MarkSentTimeOnly(row, at) == [row EXCEPT !.sentAt = at]

\* data of prisma.meetingReminder.update
MarkSent(row, at) ==
  [row EXCEPT !.sentAt = at, !.emailSent = TRUE, !.pushSent = TRUE,
              !.inAppCreated = TRUE]

\* an updateMany over the rows of the reminder's meeting
UpdateMeetingRows(rows, id, at) ==
  [r \in DOMAIN rows |->
     IF rows[r].meetingId = rows[id].meetingId THEN MarkSent(rows[r], at)
     ELSE rows[r]]

\* update({ where: { id } }): the one row with that id
UpdateRow(rows, id, at) == [rows EXCEPT ![id] = MarkSent(@, at)]

\* await prisma.meetingReminder.update({ where: { id: reminder.id }, ... })
\* rejects when the row is gone (record to update not found)
TickMark(t) ==
  /\ tpc[t] = "mark"
  /\ IF Cur(t).id \in DOMAIN reminders
     THEN /\ reminders' = UpdateRow(reminders, Cur(t).id, now)
          /\ EndReminder(t, "sent", EnterReminder(batch[t], ri[t] + 1))
     ELSE /\ reminders' = reminders
          /\ Throw(t, "threw:update")
  /\ UNCHANGED << now, opVars, serviceVars, subs, meetings, participants,
                  settings, nextId, deleted, notifications, sends, cronFired,
                  tickCount, tid, tnow, batch, tset, failures >>

TickMarkThrows(t) ==
  /\ tpc[t] = "mark"
  /\ failures < MaxFailures
  /\ failures' = failures + 1
  /\ Throw(t, "threw:update")
  /\ UNCHANGED << now, opVars, serviceVars, subs, storeVars, notifications,
                  sends, cronFired, tickCount, tid, tnow, batch, tset >>

(* ------------------------------ the clock ------------------------------ *)
Advance ==
  /\ now < MaxTime
  /\ now' = now + 1
  /\ cronFired' = FALSE
  /\ UNCHANGED << opVars, storeVars, notifications, sends, tickCount, tickVars,
                  failures, serviceVars, subs >>

(* --------------------------- MeetingService ---------------------------- *)
NoArg == [m |-> "m1", hasStart |-> FALSE, startTime |-> 0, hasLeads |-> FALSE,
          leads |-> << >>]

OpFrame == << now, settings, notifications, sends, cronFired, tickCount,
              tickVars, failures, serviceVars, subs >>

LowestFree(q) ==
  /\ opc[q] = "idle"
  /\ \A x \in Requests : opc[x] = "idle" => (q = "q1" \/ x # "q1")

BeginOp(q, pc, arg) ==
  /\ LowestFree(q)
  /\ opCount < MaxOps
  /\ opCount' = opCount + 1
  /\ opc' = [opc EXCEPT ![q] = pc]
  /\ oarg' = [oarg EXCEPT ![q] = arg]

\* the request moves on to pc; its frame is dropped when it returns
StepOp(q, pc) ==
  /\ opc' = [opc EXCEPT ![q] = pc]
  /\ oarg' = IF pc = "idle" THEN [oarg EXCEPT ![q] = NoArg] ELSE oarg
  /\ UNCHANGED opCount

\* n more MeetingReminder ids can be handed out
RowsLeft(n) == nextId + n - 1 <= MaxRows

\* getById: the meeting exists (else 404)
Found(m) == m \in DOMAIN meetings

\* create: prisma.meeting.create with its participants
CreateMeeting(q, m, startTime, leads) ==
  /\ m \notin (DOMAIN meetings) \cup deleted
  /\ RowsLeft(Len(leads))
  /\ \A x \in Requests : opc[x] # "idle" => oarg[x].m # m
  /\ BeginOp(q, "create:reminders",
             [m |-> m, hasStart |-> TRUE, startTime |-> startTime,
              hasLeads |-> TRUE, leads |-> leads])
  /\ meetings' = [x \in (DOMAIN meetings) \cup {m} |->
                    IF x = m
                    THEN [startTime |-> startTime, isCancelled |-> FALSE,
                          reminderMinutesBefore |-> leads]
                    ELSE meetings[x]]
  /\ participants' = [x \in (DOMAIN participants) \cup {m} |->
                        IF x = m THEN ParticipantRows ELSE participants[x]]
  /\ UNCHANGED << OpFrame, settings, reminders, nextId, deleted >>

\* createReminders(id, startTime, minutesBefore): the last store write of
\* create and of update; rejects when the meeting row is gone (foreign key)
OpCreateReminders(q) ==
  /\ opc[q] \in {"create:reminders", "update:reminders"}
  /\ RowsLeft(Len(oarg[q].leads))
  /\ IF Found(oarg[q].m)
     THEN /\ reminders' = CreateReminders(reminders, nextId, oarg[q].m,
                                          oarg[q].startTime, oarg[q].leads)
          /\ nextId' = nextId + Len(oarg[q].leads)
     ELSE UNCHANGED << reminders, nextId >>
  /\ StepOp(q, "idle")
  /\ UNCHANGED << OpFrame, meetings, participants, deleted >>

\* update: getById and the isCancelled check
UpdateBegin(q, m, hasStart, startTime, hasLeads, leads) ==
  /\ Found(m)
  /\ meetings[m].isCancelled = FALSE
  /\ (hasStart \/ hasLeads) =>
       RowsLeft(Len(IF hasLeads THEN leads ELSE meetings[m].reminderMinutesBefore))
  /\ BeginOp(q, "update:write",
             [m |-> m, hasStart |-> hasStart, startTime |-> startTime,
              hasLeads |-> hasLeads, leads |-> leads])
  /\ UNCHANGED << OpFrame, storeVars >>

\* update: prisma.meeting.update; `updated` is the row it returns
UpdateWrite(q) ==
  /\ opc[q] = "update:write"
  /\ IF Found(oarg[q].m)
     THEN /\ meetings' =
               [meetings EXCEPT
                  ![oarg[q].m].startTime =
                     IF oarg[q].hasStart THEN oarg[q].startTime ELSE @,
                  ![oarg[q].m].reminderMinutesBefore =
                     IF oarg[q].hasLeads THEN oarg[q].leads ELSE @]
          /\ IF oarg[q].hasStart \/ oarg[q].hasLeads
             THEN /\ opc' = [opc EXCEPT ![q] = "update:delete"]
                  /\ oarg' = [oarg EXCEPT
                       ![q].startTime = meetings'[oarg[q].m].startTime,
                       ![q].leads = meetings'[oarg[q].m].reminderMinutesBefore]
                  /\ UNCHANGED opCount
             ELSE StepOp(q, "idle")
     ELSE /\ meetings' = meetings
          /\ StepOp(q, "idle")
  /\ UNCHANGED << OpFrame, participants, reminders, nextId, deleted >>

\* update: prisma.meetingReminder.deleteMany({ where: { meetingId } })
UpdateDelete(q) ==
  /\ opc[q] = "update:delete"
  /\ reminders' = DeleteReminders(reminders, oarg[q].m)
  /\ StepOp(q, "update:reminders")
  /\ UNCHANGED << OpFrame, meetings, participants, nextId, deleted >>

\* cancel: getById and the isCancelled check
CancelBegin(q, m) ==
  /\ Found(m)
  /\ meetings[m].isCancelled = FALSE
  /\ BeginOp(q, "cancel:write", [NoArg EXCEPT !.m = m])
  /\ UNCHANGED << OpFrame, storeVars >>

\* cancel: prisma.meeting.update({ data: { isCancelled: true } })
CancelWrite(q) ==
  /\ opc[q] = "cancel:write"
  /\ IF Found(oarg[q].m)
     THEN /\ meetings' = [meetings EXCEPT ![oarg[q].m].isCancelled = TRUE]
          /\ StepOp(q, "cancel:delete")
     ELSE /\ meetings' = meetings
          /\ StepOp(q, "idle")
  /\ UNCHANGED << OpFrame, participants, reminders, nextId, deleted >>

\* cancel: prisma.meetingReminder.deleteMany({ where: { meetingId } })
CancelDelete(q) ==
  /\ opc[q] = "cancel:delete"
  /\ reminders' = DeleteReminders(reminders, oarg[q].m)
  /\ StepOp(q, "idle")
  /\ UNCHANGED << OpFrame, meetings, participants, nextId, deleted >>

\* delete: getById
DeleteBegin(q, m) ==
  /\ Found(m)
  /\ BeginOp(q, "delete:row", [NoArg EXCEPT !.m = m])
  /\ UNCHANGED << OpFrame, storeVars >>

\* delete: prisma.meeting.delete, cascading to participants and reminders
DeleteRow(q) ==
  /\ opc[q] = "delete:row"
  /\ meetings' = [x \in (DOMAIN meetings) \ {oarg[q].m} |-> meetings[x]]
  /\ participants' = [x \in (DOMAIN participants) \ {oarg[q].m} |-> participants[x]]
  /\ reminders' = DeleteReminders(reminders, oarg[q].m)
  /\ deleted' = IF Found(oarg[q].m) THEN deleted \cup {oarg[q].m} ELSE deleted
  /\ StepOp(q, "idle")
  /\ UNCHANGED << OpFrame, nextId >>

(* ----------------- PushService.sendToUser, await by await -------------- *)
NoResults == [e \in {} |-> 201]

PushFrame == << now, storeVars, opVars, notifications, sends, cronFired,
               tickCount, tickVars, configVars, subscribeVars, createVars >>

\* the call ends: it returns or throws
PushEnds(how) ==
  /\ ppc' = "idle"
  /\ pstatus' = how

\* sendToUser(userId, payload): if (!this.isConfigured) { log; return }
PushCall(u) ==
  /\ ppc = "idle"
  /\ puser' = u
  /\ pfound' = {}
  /\ pres' = NoResults
  /\ IF ~vapid THEN PushEnds("returned")
     ELSE ppc' = "find" /\ pstatus' = "running"
  /\ UNCHANGED << PushFrame, subs, failures >>

\* const subscriptions = await prisma.pushSubscription.findMany(...)
PushFind(ok) ==
  /\ ppc = "find"
  /\ IF ok
     THEN /\ pfound' = SubsOf(subs, puser)
          /\ ppc' = "send"
          /\ UNCHANGED << pstatus, failures >>
     ELSE /\ failures < MaxFailures
          /\ failures' = failures + 1
          /\ PushEnds("threw")
          /\ UNCHANGED pfound
  /\ UNCHANGED << PushFrame, subs, puser, pres >>

\* const results = await Promise.allSettled(subscriptions.map(send));
\* then failedEndpoints is computed and, when it is empty, the call returns
PushSend ==
  /\ ppc = "send"
  /\ \E r \in [pfound -> Statuses] :
       /\ pres' = r
       /\ IF ~AllSettled(r) THEN PushEnds("threw")
          ELSE IF FailedEndpoints(r) = {} THEN PushEnds("returned")
          ELSE ppc' = "delete" /\ pstatus' = pstatus
  /\ UNCHANGED << PushFrame, subs, puser, pfound, failures >>

\* await prisma.pushSubscription.deleteMany({ endpoint: { in: failedEndpoints } })
PushDelete(ok) ==
  /\ ppc = "delete"
  /\ IF ok
     THEN /\ subs' = DeleteEndpoints(subs, FailedEndpoints(pres))
          /\ PushEnds("returned")
          /\ UNCHANGED failures
     ELSE /\ failures < MaxFailures
          /\ failures' = failures + 1
          /\ PushEnds("threw")
          /\ UNCHANGED subs
  /\ UNCHANGED << PushFrame, puser, pfound, pres >>

PushNext ==
  \/ \E u \in Users : PushCall(u)
  \/ \E ok \in BOOLEAN : PushFind(ok)
  \/ PushSend
  \/ \E ok \in BOOLEAN : PushDelete(ok)

(* --------------------- PushService.subscribe / unsubscribe ------------- *)
NoSubscribe == [userId |-> NoUser, endpoint |-> "e1", existing |-> NoUser]

SubscribeFrame == << now, storeVars, opVars, notifications, sends, cronFired,
                    tickCount, tickVars, configVars, pushVars, createVars,
                    failures >>

\* const existing = await prisma.pushSubscription.findUnique({ endpoint })
SubscribeFind(u, e) ==
  /\ spc = "idle"
  /\ spc' = "write"
  /\ sarg' = [userId |-> u, endpoint |-> e,
              existing |-> IF e \in DOMAIN subs THEN subs[e] ELSE NoUser]
  /\ UNCHANGED << SubscribeFrame, subs >>

\* if (existing) { if (existing.userId !== userId) update; return } create.
\* The update rejects when the row is gone, the create when the endpoint is
\* taken (unique index): both leave the table as it is.
SubscribeWrite ==
  /\ spc = "write"
  /\ subs' =
       IF sarg.existing # NoUser
       THEN IF sarg.existing # sarg.userId /\ sarg.endpoint \in DOMAIN subs
            THEN [subs EXCEPT ![sarg.endpoint] = sarg.userId]
            ELSE subs
       ELSE IF sarg.endpoint \in DOMAIN subs THEN subs
            ELSE [e \in (DOMAIN subs) \cup {sarg.endpoint} |->
                    IF e = sarg.endpoint THEN sarg.userId ELSE subs[e]]
  /\ spc' = "idle"
  /\ sarg' = NoSubscribe
  /\ UNCHANGED SubscribeFrame

\* unsubscribe(endpoint): deleteMany({ where: { endpoint } })
Unsubscribe(e) ==
  /\ spc = "idle"
  /\ subs' = DeleteEndpoints(subs, {e})
  /\ UNCHANGED << SubscribeFrame, subscribeVars >>

SubscribeNext ==
  \/ \E u \in Users, e \in Endpoints : SubscribeFind(u, e)
  \/ SubscribeWrite
  \/ \E e \in Endpoints : Unsubscribe(e)

(* ------------ NotificationService.create, called outside the job ------- *)
NoCreate == [userId |-> NoUser, settings |-> NoSettings]
NoReturn == [status |-> "none", userId |-> NoUser, id |-> "", isRead |-> FALSE]

CreateFrame == << now, meetings, participants, reminders, nextId, deleted,
                 opVars, sends, cronFired, tickCount, tickVars, subs,
                 configVars, pushVars, subscribeVars >>

\* create(userId, type, title, message, relatedMeetingId):
\* const settings = await prisma.userSettings.findUnique({ where: { userId } })
CreateCall(u) ==
  /\ cpc = "idle"
  /\ ccount < MaxCreates
  /\ ccount' = ccount + 1
  /\ cpc' = "write"
  /\ carg' = [userId |-> u, settings |-> SettingsOf(u)]
  /\ cret' = NoReturn
  /\ UNCHANGED << CreateFrame, settings, notifications, failures >>

\* the Notification row prisma.notification.create stores for the call
DirectNotification(u, n) ==
  [userId |-> u, email |-> "", relatedMeetingId |-> "m1", minutesBefore |-> 0,
   tid |-> 0, rid |-> n, late |-> FALSE]

\* if (!settings || settings.inAppNotificationsEnabled)
\*   return prisma.notification.create(...)      (resolves or rejects)
\* return { id: '', ..., isRead: true, ... }       (nothing is stored)
CreateWrite(ok) ==
  /\ cpc = "write"
  /\ cpc' = "idle"
  /\ carg' = NoCreate
  /\ IF CreateEnabled(carg.settings)
     THEN IF ok
          THEN /\ notifications' =
                    notifications \cup {DirectNotification(carg.userId, ccount)}
               /\ cret' = [status |-> "returned", userId |-> carg.userId,
                           id |-> "stored", isRead |-> FALSE]
               /\ UNCHANGED failures
          ELSE /\ failures < MaxFailures
               /\ failures' = failures + 1
               /\ cret' = [NoReturn EXCEPT !.status = "threw"]
               /\ UNCHANGED notifications
     ELSE /\ ok
          /\ cret' = [status |-> "returned", userId |-> carg.userId,
                      id |-> "", isRead |-> TRUE]
          /\ UNCHANGED << notifications, failures >>
  /\ UNCHANGED << CreateFrame, settings, ccount >>

\* SettingsService.update(userId, { inAppNotificationsEnabled: b }): get()
\* creates the default row (all enabled) when there is none, then the toggle
\* is written
SettingsUpdate(u, b) ==
  /\ settings' =
       [settings EXCEPT ![u] =
          IF settings[u].row
          THEN [@ EXCEPT !.inAppNotificationsEnabled = b]
          ELSE [row |-> TRUE, emailNotificationsEnabled |-> TRUE,
                pushNotificationsEnabled |-> TRUE,
                inAppNotificationsEnabled |-> b]]
  /\ settings' # settings
  /\ UNCHANGED << CreateFrame, createVars, notifications, failures >>

CreateNext ==
  \/ \E u \in Users : CreateCall(u)
  \/ \E ok \in BOOLEAN : CreateWrite(ok)

(* --------------------------- specification ----------------------------- *)
\* the state of the job and of the requests when the process has started
Idle ==
  /\ notifications = {}
  /\ sends = {}
  /\ cronFired = FALSE
  /\ tickCount = 0
  /\ tpc = [t \in TickSlots |-> "idle"]
  /\ tid = [t \in TickSlots |-> 0]
  /\ tnow = [t \in TickSlots |-> 0]
  /\ batch = [t \in TickSlots |-> << >>]
  /\ ri = [t \in TickSlots |-> 1]
  /\ pi = [t \in TickSlots |-> 0]
  /\ tset = [t \in TickSlots |-> NoSettings]
  /\ outcome = [t \in TickSlots |-> << >>]
  /\ failures = 0
  /\ deleted = {}
  /\ opCount = 0
  /\ opc = [q \in Requests |-> "idle"]
  /\ oarg = [q \in Requests |-> NoArg]
  /\ ppc = "idle"
  /\ puser = NoUser
  /\ pfound = {}
  /\ pres = NoResults
  /\ pstatus = "none"
  /\ spc = "idle"
  /\ sarg = NoSubscribe
  /\ cpc = "idle"
  /\ carg = NoCreate
  /\ cret = NoReturn
  /\ ccount = 0

\* SMTP and VAPID configured, nobody subscribed to push
Configured ==
  /\ smtp = TRUE
  /\ vapid = TRUE
  /\ subs = << >>

\* the store after MeetingService.create(startTime, leads) has completed
Created(m, startTime, leads) ==
  /\ meetings = [x \in {m} |-> [startTime |-> startTime, isCancelled |-> FALSE,
                                reminderMinutesBefore |-> leads]]
  /\ participants = [x \in {m} |-> ParticipantRows]
  /\ reminders = CreateReminders(<< >>, 1, m, startTime, leads)
  /\ nextId = Len(leads) + 1

EmailOnly ==
  [row |-> TRUE, emailNotificationsEnabled |-> TRUE,
   pushNotificationsEnabled |-> FALSE, inAppNotificationsEnabled |-> FALSE]

EmailAndPush ==
  [row |-> TRUE, emailNotificationsEnabled |-> TRUE,
   pushNotificationsEnabled |-> TRUE, inAppNotificationsEnabled |-> FALSE]

AllOff ==
  [row |-> TRUE, emailNotificationsEnabled |-> FALSE,
   pushNotificationsEnabled |-> FALSE, inAppNotificationsEnabled |-> FALSE]

TickNext(t) ==
  \/ TickSelect(t)
  \/ TickSelectFails(t)
  \/ TickSettings(t)
  \/ TickSettingsThrows(t)
  \/ \E res \in {"ok", "writeThrows", "lookupThrows"} : TickInApp(t, res)
  \/ \E ok \in BOOLEAN : TickExtEmail(t, ok)
  \/ \E ok \in BOOLEAN : TickExtPush(t, ok)
  \/ \E ok \in BOOLEAN : TickEmail(t, ok)
  \/ \E ok \in BOOLEAN : TickPush(t, ok)
  \/ TickMark(t)
  \/ TickMarkThrows(t)

CancelNext(q) ==
  \/ \E m \in MeetingIds : CancelBegin(q, m)
  \/ CancelWrite(q)
  \/ CancelDelete(q)

\* Spec: one tick of the job at any minute, under every combination of the
\* first user's preferences, with the meeting cancelled at any moment.
Init ==
  /\ Idle
  /\ Configured
  /\ now \in 0..MaxTime
  /\ \E st \in StartTimes, ls \in LeadLists : Created("m1", st, ls)
  /\ settings \in { f \in [Users -> {NoSettings} \cup SettingsRows] :
                      f["u2"] \in {NoSettings, EmailAndPush} }

Next == TickNext("t1") \/ CancelNext("q1")

Spec == Init /\ [][Next]_vars

\* SpecClock: successive ticks of the job while the clock runs, with the
\* meeting cancelled at any moment.
InitClock ==
  /\ Idle
  /\ Configured
  /\ now = 0
  /\ \E st \in StartTimes, ls \in LeadLists : Created("m1", st, ls)
  /\ settings \in { f \in [Users -> {NoSettings, EmailOnly, AllOff}] :
                      f["u2"] = AllOff }

NextClock == TickNext("t1") \/ CancelNext("q1") \/ Advance

SpecClock == InitClock /\ [][NextClock]_vars

\* the calls of MeetingService a request makes, its reminderMinutesBefore
\* drawn from lists
MeetingOps(q, lists) ==
  \/ \E m \in MeetingIds, st \in StartTimes, ls \in lists :
       CreateMeeting(q, m, st, ls)
  \/ OpCreateReminders(q)
  \/ \E m \in MeetingIds, hs \in BOOLEAN, st \in StartTimes,
        hl \in BOOLEAN, ls \in lists :
       UpdateBegin(q, m, hs, IF hs THEN st ELSE 0, hl, IF hl THEN ls ELSE << >>)
  \/ UpdateWrite(q)
  \/ UpdateDelete(q)
  \/ CancelNext(q)
  \/ \E m \in MeetingIds : DeleteBegin(q, m)
  \/ DeleteRow(q)

OpNext(q) == MeetingOps(q, OpLeadLists)

\* SpecOps: the ticks of the job, the clock, and calls of
\* MeetingService.create, update, cancel and delete, interleaved at every await.
InitOps ==
  /\ Idle
  /\ Configured
  /\ now = 0
  /\ meetings = << >>
  /\ participants = << >>
  /\ reminders = << >>
  /\ nextId = 1
  /\ settings = [u \in Users |-> IF u = "u1" THEN NoSettings ELSE AllOff]

\* a tick none of whose store or sender calls rejects
TickRuns(t) ==
  \/ TickSelect(t)
  \/ TickSettings(t)
  \/ TickInApp(t, "ok")
  \/ TickExtEmail(t, TRUE)
  \/ TickExtPush(t, TRUE)
  \/ TickEmail(t, TRUE)
  \/ TickPush(t, TRUE)
  \/ TickMark(t)

NextOps == TickRuns("t1") \/ OpNext("q1") \/ Advance

SpecOps == InitOps /\ [][NextOps]_vars

\* SpecLeads: as SpecOps, the requests also carrying a list that names a lead
\* time twice (the schema accepts any array of numbers 0..10080).
NextLeads == TickRuns("t1") \/ MeetingOps("q1", RepeatLeadLists) \/ Advance

SpecLeads == InitOps /\ [][NextLeads]_vars

\* the PushSubscription tables: each endpoint registered to a user, or not
SubscriptionTables ==
  UNION { [E -> Users] : E \in SUBSET Endpoints }

\* SpecPush: calls of PushService.sendToUser, one at a time, await by await,
\* while subscribe and unsubscribe run in between; the store is otherwise
\* empty and the job does not run.
InitPush ==
  /\ Idle
  /\ now = 0
  /\ meetings = << >>
  /\ participants = << >>
  /\ reminders = << >>
  /\ nextId = 1
  /\ settings = [u \in Users |-> NoSettings]
  /\ smtp = TRUE
  /\ vapid = TRUE
  /\ subs \in SubscriptionTables

NextPush == PushNext \/ SubscribeNext

SpecPush == InitPush /\ [][NextPush]_vars

\* one endpoint registered to u1 and one to u2
SomeSubscriptions ==
  [e \in {"e1", "e3"} |-> IF e = "e3" THEN "u2" ELSE "u1"]

\* SpecConfig: one tick of the job and calls of sendToUser from elsewhere,
\* under every combination of SMTP and VAPID being configured or not.
InitConfig ==
  /\ Idle
  /\ now = 0
  /\ Created("m1", 1, <<0>>)
  /\ settings \in [Users -> {NoSettings, EmailAndPush}]
  /\ smtp \in BOOLEAN
  /\ vapid \in BOOLEAN
  /\ subs = SomeSubscriptions

NextConfig == TickNext("t1") \/ PushNext

SpecConfig == InitConfig /\ [][NextConfig]_vars

InAppOnly ==
  [row |-> TRUE, emailNotificationsEnabled |-> FALSE,
   pushNotificationsEnabled |-> FALSE, inAppNotificationsEnabled |-> TRUE]

\* SpecCreate: calls of NotificationService.create made outside the job
\* (invitations, updates, cancellations, responses), await by await, while
\* the users change their in-app preference.
InitCreate ==
  /\ Idle
  /\ Configured
  /\ now = 0
  /\ meetings = << >>
  /\ participants = << >>
  /\ reminders = << >>
  /\ nextId = 1
  /\ settings \in [Users -> {NoSettings, AllOff, InAppOnly}]

NextCreate ==
  \/ CreateNext
  \/ \E u \in Users, b \in BOOLEAN : SettingsUpdate(u, b)

SpecCreate == InitCreate /\ [][NextCreate]_vars

\* SpecOverlap: a tick that is still running when the next minute begins, so
\* that the scheduler starts the next tick beside it; no store or sender call
\* rejects.
InitOverlap ==
  /\ Idle
  /\ Configured
  /\ now = 0
  /\ \E ls \in LeadLists : Created("m1", 2, ls)
  /\ settings \in { f \in [Users -> {NoSettings, EmailOnly, AllOff}] :
                      f["u1"] # AllOff /\ f["u2"] = AllOff }

NextOverlap == TickRuns("t1") \/ TickRuns("t2") \/ Advance

SpecOverlap == InitOverlap /\ [][NextOverlap]_vars

\* a tick whose store calls and in-app writes return; the e-mail and push
\* senders may reject
TickCompletes(t) ==
  \/ TickSelect(t)
  \/ TickSettings(t)
  \/ TickInApp(t, "ok")
  \/ \E ok \in BOOLEAN : TickExtEmail(t, ok)
  \/ \E ok \in BOOLEAN : TickExtPush(t, ok)
  \/ \E ok \in BOOLEAN : TickEmail(t, ok)
  \/ \E ok \in BOOLEAN : TickPush(t, ok)
  \/ TickMark(t)

\* the minute ends once the scheduler has fired the callback of that minute
MinuteEnds == cronFired /\ Advance

\* SpecLive: the job alone with a meeting nobody touches.  The scheduler fires
\* the callback in every minute, every await of a tick returns, and the clock
\* runs on while a tick is at work.
InitLive ==
  /\ Idle
  /\ Configured
  /\ now = 0
  /\ \E st \in StartTimes, ls \in LeadLists : Created("m1", st, ls)
  /\ settings \in { f \in [Users -> {NoSettings, EmailOnly, AllOff}] :
                      f["u1"] # AllOff /\ f["u2"] = AllOff }

NextLive == TickCompletes("t1") \/ MinuteEnds

Fairness == WF_vars(TickCompletes("t1")) /\ WF_vars(MinuteEnds)

SpecLive == InitLive /\ [][NextLive]_vars /\ Fairness

\* update called with the values the meeting already has: the startTime, the
\* reminderMinutesBefore, both, or neither of them in the input
UpdateSame(q) ==
  \E m \in MeetingIds, hs \in BOOLEAN, hl \in BOOLEAN :
    /\ Found(m)
    /\ UpdateBegin(q, m, hs, IF hs THEN meetings[m].startTime ELSE 0,
                   hl, IF hl THEN meetings[m].reminderMinutesBefore ELSE << >>)

\* SpecResubmit: the ticks of the job and the clock, while the creator saves
\* the meeting again without changing its start time or its lead times.
InitResubmit ==
  /\ Idle
  /\ Configured
  /\ now = 0
  /\ \E ls \in LeadLists : Created("m1", MaxTime, ls)
  /\ settings = [u \in Users |-> IF u = "u1" THEN NoSettings ELSE AllOff]

NextResubmit ==
  \/ TickRuns("t1")
  \/ UpdateSame("q1")
  \/ UpdateWrite("q1")
  \/ UpdateDelete("q1")
  \/ OpCreateReminders("q1")
  \/ Advance

SpecResubmit == InitResubmit /\ [][NextResubmit]_vars

\* the update and cancel calls of one request
RaceOps(q) ==
  \/ \E m \in MeetingIds, hs \in BOOLEAN, st \in StartTimes,
        hl \in BOOLEAN, ls \in OpLeadLists :
       UpdateBegin(q, m, hs, IF hs THEN st ELSE 0, hl, IF hl THEN ls ELSE << >>)
  \/ UpdateWrite(q)
  \/ UpdateDelete(q)
  \/ OpCreateReminders(q)
  \/ CancelNext(q)

\* SpecRace: two requests on the same meeting at once, each an update or a
\* cancel, interleaved at every await; the job does not run.
InitRace ==
  /\ Idle
  /\ Configured
  /\ now = 0
  /\ \E st \in StartTimes, ls \in OpLeadLists : Created("m1", st, ls)
  /\ settings = [u \in Users |-> NoSettings]

NextRace == RaceOps("q1") \/ RaceOps("q2")

SpecRace == InitRace /\ [][NextRace]_vars

(* ------------------------------- claims -------------------------------- *)
Processed(t) == 1..Len(outcome[t])

\* the reminder at index i of the batch of t went through all its
\* participants: every settings lookup and in-app call returned
Dispatched(t, i) ==
  i \in Processed(t) /\ outcome[t][i] \in {"sent", "threw:update", "threw:sender"}

LinkedUsers(rec) ==
  { rec.participants[k].userId : k \in DOMAIN rec.participants } \cap Users

PrefOn(u, ch) ==
  \/ settings[u].row = FALSE
  \/ ch = "inApp" /\ settings[u].inAppNotificationsEnabled
  \/ ch = "email" /\ settings[u].emailNotificationsEnabled
  \/ ch = "push" /\ settings[u].pushNotificationsEnabled

Notified(k, rid, u) ==
  \E n \in notifications : n.tid = k /\ n.rid = rid /\ n.userId = u

Sent(k, rid, u, ch) ==
  \E e \in sends : e.tid = k /\ e.rid = rid /\ e.userId = u /\ e.chan = ch

Used(k, rid, u, ch) ==
  IF ch = "inApp" THEN Notified(k, rid, u) ELSE Sent(k, rid, u, ch)

RowMarked(r) ==
  /\ reminders[r].sentAt # NULL
  /\ reminders[r].emailSent
  /\ reminders[r].pushSent
  /\ reminders[r].inAppCreated

RowPending(r) ==
  /\ reminders[r].sentAt = NULL
  /\ ~reminders[r].emailSent
  /\ ~reminders[r].pushSent
  /\ ~reminders[r].inAppCreated

\* the four conditions of the selection at time n
DueAt(r, n) ==
  /\ reminders[r].scheduledFor <= n + 1
  /\ reminders[r].sentAt = NULL
  /\ reminders[r].meetingId \in DOMAIN meetings
  /\ ~meetings[reminders[r].meetingId].isCancelled
  /\ meetings[reminders[r].meetingId].startTime > n

\* t runs its selection in this step, and the query returns
Selects(t) == tid'[t] # tid[t] /\ failures' = failures

C3_SenderFailureIsolated ==
  \A t \in TickSlots : \A i \in Processed(t) :
    (/\ outcome[t][i] \in {"sent", "threw:update", "threw:sender"}
     /\ \E e \in sends : e.tid = tid[t] /\ e.rid = batch[t][i].id /\ ~e.ok)
    => \A u \in LinkedUsers(batch[t][i]) : \A ch \in Channels :
         PrefOn(u, ch) => Used(tid[t], batch[t][i].id, u, ch)

\* the e-mail of the job to u1 was rejected; the push to u1 and the e-mail and
\* push to u2 were made all the same
C3_Witness ==
  /\ outcome["t1"] # << >>
  /\ outcome["t1"][1] = "sent"
  /\ \E e \in sends :
       /\ e.tid = tid["t1"] /\ e.rid = batch["t1"][1].id
       /\ e.userId = "u1" /\ e.chan = "email" /\ e.via = "job" /\ ~e.ok
  /\ \E e \in sends :
       /\ e.tid = tid["t1"] /\ e.rid = batch["t1"][1].id
       /\ e.userId = "u1" /\ e.chan = "push" /\ e.via = "job"
  /\ Sent(tid["t1"], batch["t1"][1].id, "u2", "email")
  /\ Sent(tid["t1"], batch["t1"][1].id, "u2", "push")

\* C4: a tick ends only after every reminder of its batch has been attempted,
\* whatever exceptions the earlier ones raised.
C4_TickAttemptsWholeBatch ==
  \A t \in TickSlots :
    /\ ri[t] = Len(outcome[t]) + 1
    /\ tpc[t] = "idle" => Len(outcome[t]) = Len(batch[t])

\* the first reminder of a batch of two threw, the second was marked sent
C4_Witness ==
  /\ tpc["t1"] = "idle"
  /\ Len(batch["t1"]) = 2
  /\ Len(outcome["t1"]) = 2
  /\ outcome["t1"][1] \in {"threw:settings", "threw:inApp", "threw:lookup", "threw:update"}
  /\ outcome["t1"][2] = "sent"

\* C5: no Notification, e-mail or push is made for a participant row whose
\* userId is null, and the participant rows stay as they were created.
C5_UnlinkedParticipantSkipped ==
  \A m \in DOMAIN participants :
    /\ participants[m] = ParticipantRows
    /\ \A k \in DOMAIN participants[m] :
         participants[m][k].userId = NoUser =>
           /\ \A n \in notifications :
                ~(n.relatedMeetingId = m /\ n.email = participants[m][k].email)
           /\ \A e \in sends :
                ~(e.meetingId = m /\ e.email = participants[m][k].email)

\* a reminder was dispatched to both account-linked participants of a meeting
\* that has a participant without account
C5_Witness ==
  /\ outcome["t1"] # << >>
  /\ outcome["t1"][1] = "sent"
  /\ \E k \in DOMAIN batch["t1"][1].participants :
       batch["t1"][1].participants[k].userId = NoUser
  /\ Sent(tid["t1"], batch["t1"][1].id, "u1", "email")
  /\ Sent(tid["t1"], batch["t1"][1].id, "u2", "email")

\* C6: for a user with a settings row, a channel whose toggle is false is
\* never used, and once a reminder went through all its participants each
\* channel was used for that user if and only if its toggle is true.
C6_TogglesDecideChannels ==
  \A u \in Users : settings[u].row =>
    /\ \A ch \in Channels :
         ~PrefOn(u, ch) =>
           /\ \A n \in notifications : ~(ch = "inApp" /\ n.userId = u)
           /\ \A e \in sends : ~(e.chan = ch /\ e.userId = u)
    /\ \A t \in TickSlots : \A i \in Processed(t) :
         (Dispatched(t, i) /\ u \in LinkedUsers(batch[t][i])) =>
           \A ch \in Channels :
             Used(tid[t], batch[t][i].id, u, ch) <=> PrefOn(u, ch)

\* a reminder was dispatched to u1, who has in-app and e-mail on and push off
C6_Witness ==
  /\ settings["u1"].row
  /\ settings["u1"].inAppNotificationsEnabled
  /\ settings["u1"].emailNotificationsEnabled
  /\ ~settings["u1"].pushNotificationsEnabled
  /\ outcome["t1"] # << >>
  /\ outcome["t1"][1] = "sent"
  /\ Notified(tid["t1"], batch["t1"][1].id, "u1")
  /\ \E e \in sends : e.userId = "u1" /\ e.chan = "email" /\ e.via = "service"
  /\ \E e \in sends : e.userId = "u1" /\ e.chan = "email" /\ e.via = "job"

\* C7: once a reminder went through all its participants, an account-linked
\* participant whose user has no settings row has an in-app Notification and
\* had the e-mail sender and the push sender invoked.
C7_NoSettingsRowAllChannels ==
  \A t \in TickSlots : \A i \in Processed(t) :
    Dispatched(t, i) =>
      \A u \in LinkedUsers(batch[t][i]) :
        ~settings[u].row =>
          /\ Notified(tid[t], batch[t][i].id, u)
          /\ Sent(tid[t], batch[t][i].id, u, "email")
          /\ Sent(tid[t], batch[t][i].id, u, "push")

\* a reminder was dispatched on all three channels to u1, who has no settings
C7_Witness ==
  /\ ~settings["u1"].row
  /\ outcome["t1"] # << >>
  /\ Dispatched("t1", 1)
  /\ Notified(tid["t1"], batch["t1"][1].id, "u1")
  /\ Sent(tid["t1"], batch["t1"][1].id, "u1", "email")
  /\ Sent(tid["t1"], batch["t1"][1].id, "u1", "push")

\* C8: a row whose sentAt is set is not among the reminders a tick still has
\* to process (so no tick that selects after the marking selects it, sends for
\* it or updates it), and no step changes such a row other than by deleting it.
C8_SentIsTerminal ==
  /\ [](\A t \in TickSlots :
          tpc[t] # "idle" =>
            \A i \in ri[t]..Len(batch[t]) :
              batch[t][i].id \in DOMAIN reminders =>
                reminders[batch[t][i].id].sentAt = NULL)
  /\ [][\A r \in DOMAIN reminders :
          (reminders[r].sentAt # NULL /\ r \in DOMAIN reminders') =>
            reminders'[r] = reminders[r]]_vars

\* the second tick has selected while a sent row of a meeting that is still
\* ahead and not cancelled is in the store
C8_Witness ==
  /\ tid["t1"] = 2
  /\ \E r \in DOMAIN reminders :
       /\ reminders[r].sentAt # NULL
       /\ reminders[r].scheduledFor <= tnow["t1"] + 1
       /\ reminders[r].meetingId \in DOMAIN meetings
       /\ ~meetings[reminders[r].meetingId].isCancelled
       /\ meetings[reminders[r].meetingId].startTime > tnow["t1"]

\* C9 as stated: at every in-app write, e-mail send and push send for a
\* reminder, the clock is before the start time of the meeting.
C9_Original ==
  /\ \A e \in sends : ~e.late
  /\ \A n \in notifications : ~n.late

\* C9 amended: every reminder of a batch belonged, when the tick selected it
\* at its time now, to a meeting with startTime > now; the sends of the tick
\* are not checked against the clock again.
C9_SelectedBeforeStart ==
  \A t \in TickSlots : \A i \in DOMAIN batch[t] :
    batch[t][i].startTime > tnow[t]

\* a send made at or after the start of the meeting, for a reminder selected
\* before it
C9_Witness ==
  \E e \in sends :
    /\ e.late
    /\ e.tid = tid["t1"]
    /\ \E i \in DOMAIN batch["t1"] :
         batch["t1"][i].id = e.rid /\ batch["t1"][i].startTime > tnow["t1"]

\* C10 as stated: a selected reminder has scheduledFor <= now, the time of the
\* tick.
C10_Original ==
  \A t \in TickSlots : \A i \in DOMAIN batch[t] :
    batch[t][i].scheduledFor <= tnow[t]

\* C10 amended: a selected reminder is unsent and has scheduledFor <= now + 60
\* seconds; a reminder due later than that is not in the result.
C10_SelectedWithinLookAhead ==
  \A t \in TickSlots : \A i \in DOMAIN batch[t] :
    /\ batch[t][i].scheduledFor <= tnow[t] + 1
    /\ batch[t][i].sentAt = NULL

\* a tick selected a reminder whose fire time is the minute after the tick
C10_Witness ==
  \E i \in DOMAIN batch["t1"] :
    /\ batch["t1"][i].scheduledFor = tnow["t1"] + 1
    /\ tid["t1"] > 0

\* the calls of channel ch made for user u in the dispatch of reminder rid by
\* the tick numbered k
Calls(k, rid, u, ch) ==
  IF ch = "inApp"
  THEN Cardinality({ n \in notifications : n.tid = k /\ n.rid = rid /\ n.userId = u })
  ELSE Cardinality({ e \in sends :
                       e.tid = k /\ e.rid = rid /\ e.userId = u /\ e.chan = ch })

\* C11 as stated: once a reminder went through all its participants, every
\* enabled channel of every account-linked participant was invoked exactly
\* once: one Notification row, one call of the e-mail sender, one call of
\* pushService.sendToUser, whatever the other toggles of the user are.
C11_Original ==
  \A t \in TickSlots : \A i \in Processed(t) :
    Dispatched(t, i) =>
      \A u \in LinkedUsers(batch[t][i]) : \A ch \in Channels :
        PrefOn(u, ch) => Calls(tid[t], batch[t][i].id, u, ch) = 1


\* the reminder rows of meeting m in the store rs
RowsOf(rs, m) == { r \in DOMAIN rs : rs[r].meetingId = m }

\* the elements of a list
Elements(l) == { l[i] : i \in DOMAIN l }

\* request q returns from an update that regenerated the reminders
UpdateRegenerated(q) ==
  /\ opc[q] = "update:reminders"
  /\ opc'[q] = "idle"
  /\ oarg[q].m \in DOMAIN meetings'

\* C12 as stated: when an update carrying a startTime or a lead-time list
\* returns, the meeting has exactly one reminder row for each distinct lead
\* time of its current list and no other row, each row with
\* scheduledFor = startTime - minutesBefore and sentAt null.
C12_Original ==
  [][\A q \in Requests :
       UpdateRegenerated(q) =>
         LET m == oarg[q].m
             leads == Elements(meetings'[m].reminderMinutesBefore)
         IN /\ \A d \in leads :
                 Cardinality({ r \in RowsOf(reminders', m) :
                                 reminders'[r].minutesBefore = d }) = 1
            /\ \A r \in RowsOf(reminders', m) :
                 /\ reminders'[r].minutesBefore \in leads
                 /\ reminders'[r].scheduledFor =
                      meetings'[m].startTime - reminders'[r].minutesBefore
                 /\ reminders'[r].sentAt = NULL]_vars

\* C12, what the code does: one row per element of the list, so a lead time
\* named twice has two rows
C12_OneRowPerElement ==
  [][\A q \in Requests :
       UpdateRegenerated(q) =>
         LET m == oarg[q].m
             list == meetings'[m].reminderMinutesBefore
         IN /\ Cardinality(RowsOf(reminders', m)) = Len(list)
            /\ \A d \in Elements(list) :
                 Cardinality({ r \in RowsOf(reminders', m) :
                                 reminders'[r].minutesBefore = d })
                   = Cardinality({ i \in DOMAIN list : list[i] = d })
            /\ \A r \in RowsOf(reminders', m) :
                 /\ reminders'[r].minutesBefore \in Elements(list)
                 /\ reminders'[r].scheduledFor =
                      meetings'[m].startTime - reminders'[r].minutesBefore
                 /\ reminders'[r].sentAt = NULL]_vars


\* C13 as stated: in every reachable state no two reminder rows have the same
\* meetingId and the same minutesBefore.
C13_Original ==
  \A r1, r2 \in DOMAIN reminders :
    (/\ reminders[r1].meetingId = reminders[r2].meetingId
     /\ reminders[r1].minutesBefore = reminders[r2].minutesBefore)
    => r1 = r2


\* request q returns from cancel
CancelCompleted(q) == opc[q] = "cancel:delete" /\ opc'[q] = "idle"

TickStep == opc' = opc /\ now' = now

\* C15: a step of a tick leaves the meeting, participant and user-settings
\* rows as they are, adds and removes no reminder row, and changes a reminder
\* row only when it is the row the tick selected and is marking; every other
\* row, such as one that was not due at the tick, keeps its sentAt and flags.
C15_TickChangesOnlySelected ==
  [][TickStep =>
       /\ meetings' = meetings
       /\ participants' = participants
       /\ settings' = settings
       /\ DOMAIN reminders' = DOMAIN reminders
       /\ \A r \in DOMAIN reminders :
            reminders'[r] # reminders[r] =>
              \E t \in TickSlots :
                /\ tpc[t] = "mark"
                /\ batch[t][ri[t]].id = r]_vars

\* the meeting has two reminders, one due at the tick and one not; the tick
\* has marked the first, and the second is still pending
C15_Witness ==
  /\ tpc["t1"] = "idle"
  /\ outcome["t1"] = << "sent" >>
  /\ batch["t1"][1].id \in DOMAIN reminders
  /\ RowMarked(batch["t1"][1].id)
  /\ \E r \in DOMAIN reminders :
       /\ r # batch["t1"][1].id
       /\ reminders[r].meetingId = batch["t1"][1].meetingId
       /\ reminders[r].scheduledFor > tnow["t1"] + 1
       /\ RowPending(r)


\* the selection query of t rejects in this step
SelectionFails(t) == tid'[t] # tid[t] /\ failures' # failures

\* C16: the step in which the selection query of a tick rejects writes no row
\* and calls no sender, and leaves the tick idle with nothing to process; no
\* Notification or send is ever made by a tick with an empty batch; and a
\* tick that selects after a failure gets every reminder that is due then.
C16_SelectionFailureWritesNothing ==
  /\ [][\A t \in TickSlots :
          SelectionFails(t) =>
            /\ notifications' = notifications
            /\ sends' = sends
            /\ reminders' = reminders
            /\ meetings' = meetings
            /\ participants' = participants
            /\ settings' = settings
            /\ batch'[t] = << >>
            /\ tpc'[t] = "idle"]_vars
  /\ [](\A t \in TickSlots :
          batch[t] = << >> =>
            /\ tpc[t] = "idle"
            /\ \A e \in sends : e.tid # tid[t]
            /\ \A n \in notifications : n.tid # tid[t])
  /\ [][\A t \in TickSlots :
          (Selects(t) /\ failures > 0) =>
            { batch'[t][i].id : i \in DOMAIN batch'[t] }
              = { r \in DOMAIN reminders : DueAt(r, now) }]_vars

\* the first tick ran while a reminder was due and the meeting untouched; its
\* query was rejected: nothing was selected, written or sent, the reminder is
\* still due, and the clock and the scheduler can go on
C16_Witness ==
  /\ tickCount = 1
  /\ tickCount < MaxTicks
  /\ tid["t1"] = 1
  /\ tnow["t1"] = now
  /\ now < MaxTime
  /\ failures = 1
  /\ opCount = 0
  /\ tpc["t1"] = "idle"
  /\ batch["t1"] = << >>
  /\ sends = {}
  /\ notifications = {}
  /\ \E r \in DOMAIN reminders :
       DueAt(r, now) /\ DueAt(r, now + 1) /\ RowPending(r)


\* C17: a configured sendToUser looks up every subscription registered to the
\* user, makes a delivery to each of them whatever the other deliveries do,
\* and does not throw because deliveries failed: it throws only when a store
\* call (the lookup or the clean-up) is rejected.
C17_EverySubscriptionAttempted ==
  /\ [][(ppc = "find" /\ ppc' = "send") => pfound' = SubsOf(subs, puser)]_vars
  /\ [][(ppc = "send" /\ pres' # pres) => DOMAIN pres' = pfound]_vars
  /\ [][ppc = "send" => pstatus' # "threw"]_vars
  /\ [][(pstatus # "threw" /\ pstatus' = "threw") => failures' # failures]_vars
  /\ [](ppc = "delete" => DOMAIN pres = pfound)

\* a call for a user with two subscriptions has returned; the delivery to one
\* failed with another error than gone, the delivery to the other was accepted
C17_Witness ==
  /\ ppc = "idle"
  /\ pstatus = "returned"
  /\ pfound = {"e1", "e2"}
  /\ DOMAIN pres = pfound
  /\ pres["e1"] = 500
  /\ pres["e2"] = 201

\* C18: the step in which sendToUser cleans up removes exactly the rows whose
\* endpoints answered 404 or 410 and changes no other row; a call in which no
\* endpoint answered 404 or 410 returns without cleaning up; and no other
\* step of sendToUser changes the subscription table.
C18_ExactlyGoneDeleted ==
  /\ [][(ppc = "delete" /\ pstatus' = "returned") =>
          /\ DOMAIN subs' =
               (DOMAIN subs) \ { e \in pfound : pres[e] = 404 \/ pres[e] = 410 }
          /\ \A e \in DOMAIN subs' : subs'[e] = subs[e]]_vars
  /\ [][(ppc = "send" /\ ppc' = "idle") =>
          \A e \in pfound : pres'[e] # 404 /\ pres'[e] # 410]_vars
  /\ [][(pushVars' # pushVars /\ ~(ppc = "delete" /\ pstatus' = "returned"))
          => subs' = subs]_vars

\* a call for u1 has returned: the endpoint that answered 410 is deleted, the
\* endpoint that answered 500 and the subscription of u2 are still there
C18_Witness ==
  /\ ppc = "idle"
  /\ pstatus = "returned"
  /\ puser = "u1"
  /\ pfound = {"e1", "e2"}
  /\ pres["e1"] = 410
  /\ pres["e2"] = 500
  /\ "e1" \notin DOMAIN subs
  /\ DOMAIN subs = {"e2", "e3"}
  /\ subs["e2"] = "u1"
  /\ subs["e3"] = "u2"


\* C19: without SMTP transport every call of the e-mail sender returns
\* normally and hands nothing to a transport; without VAPID keys every call of
\* sendToUser returns normally, hands nothing to the provider, never reaches
\* its lookup or clean-up, and the subscription table stays as it is; and a
\* reminder dispatched with neither configured and no store call rejected is
\* marked sent with all three flags true.
C19_UnconfiguredIsSuccess ==
  /\ [](~smtp => \A e \in sends : e.chan = "email" => (e.ok /\ e.contacts = {}))
  /\ [](~vapid => \A e \in sends : e.chan = "push" => (e.ok /\ e.contacts = {}))
  /\ [](~vapid => (/\ ppc = "idle"
                   /\ pstatus \in {"none", "returned"}
                   /\ pfound = {}
                   /\ subs = SomeSubscriptions))
  /\ []((~smtp /\ ~vapid /\ failures = 0) =>
          \A t \in TickSlots : \A i \in Processed(t) :
            /\ outcome[t][i] = "sent"
            /\ batch[t][i].id \in DOMAIN reminders
            /\ RowMarked(batch[t][i].id))

\* neither SMTP nor VAPID is configured; a reminder was dispatched to u1 by
\* e-mail and push, nothing reached a transport, a call of sendToUser from
\* elsewhere returned, and the reminder is marked sent
C19_Witness ==
  /\ ~smtp
  /\ ~vapid
  /\ failures = 0
  /\ pstatus = "returned"
  /\ outcome["t1"] # << >>
  /\ outcome["t1"][1] = "sent"
  /\ RowMarked(batch["t1"][1].id)
  /\ \E e \in sends :
       e.userId = "u1" /\ e.chan = "email" /\ e.via = "job" /\ e.ok /\ e.contacts = {}
  /\ \E e \in sends :
       e.userId = "u1" /\ e.chan = "push" /\ e.via = "job" /\ e.ok /\ e.contacts = {}
  /\ subs = SomeSubscriptions


\* a call of create returns in this step
CreateReturns == cpc = "write" /\ cpc' = "idle" /\ failures' = failures

\* C20 as stated: every call of create that returns has stored a Notification
\* row for the given user and returns that row, whatever the user's in-app
\* preference is.
C20_Original ==
  [][CreateReturns =>
       /\ \E n \in notifications' \ notifications : n.userId = carg.userId
       /\ cret'.id # ""]_vars

\* C20 amended: create reads the user's settings itself.  With no settings
\* row or with inAppNotificationsEnabled true it stores one Notification row
\* for the user and returns it; with inAppNotificationsEnabled false it stores
\* nothing and returns an unsaved object with id '' and isRead true.
C20_CreateChecksPreference ==
  [][CreateReturns =>
       IF (~carg.settings.row) \/ carg.settings.inAppNotificationsEnabled
       THEN /\ \E n \in notifications' \ notifications :
                 /\ n.userId = carg.userId
                 /\ notifications' = notifications \cup {n}
            /\ cret'.userId = carg.userId
            /\ cret'.id # ""
       ELSE /\ notifications' = notifications
            /\ cret'.userId = carg.userId
            /\ cret'.id = ""
            /\ cret'.isRead]_vars

\* create was called for u1, whose in-app notifications are disabled; it has
\* returned the unsaved object and no Notification row of u1 is in the store
C20_Witness ==
  /\ cpc = "idle"
  /\ cret.status = "returned"
  /\ cret.userId = "u1"
  /\ cret.id = ""
  /\ settings["u1"].row
  /\ ~settings["u1"].inAppNotificationsEnabled
  /\ \A n \in notifications : n.userId # "u1"


\* every enabled channel of every account-linked participant of the reminder
\* rec has been attempted by the tick numbered k
AllAttempted(k, rec) ==
  \A u \in LinkedUsers(rec) : \A ch \in Channels :
    PrefOn(u, ch) => Used(k, rec.id, u, ch)

\* C21: a tick reaches the mark-sent update of a reminder only when every
\* enabled channel of every account-linked participant of the meeting has been
\* attempted, and a step that sets sentAt of a row is the mark-sent step of a
\* tick that has done so for that row.
C21_MarkAfterAllParticipants ==
  /\ [](\A t \in TickSlots : tpc[t] = "mark" => AllAttempted(tid[t], Cur(t)))
  /\ [][\A r \in (DOMAIN reminders) \cap (DOMAIN reminders') :
          (reminders[r].sentAt = NULL /\ reminders'[r].sentAt # NULL) =>
            \E t \in TickSlots :
              /\ tpc[t] = "mark"
              /\ Cur(t).id = r
              /\ AllAttempted(tid[t], Cur(t))]_vars

\* a tick is about to mark a reminder: both account-linked participants have
\* had their channels attempted, and one of the sends was rejected
C21_Witness ==
  /\ tpc["t1"] = "mark"
  /\ Sent(tid["t1"], Cur("t1").id, "u1", "email")
  /\ Sent(tid["t1"], Cur("t1").id, "u2", "push")
  /\ \E e \in sends : e.rid = Cur("t1").id /\ ~e.ok
  /\ reminders[Cur("t1").id].sentAt = NULL

\* the ticks that notified user u for the reminder row rid, over any channel
NotifyingTicks(rid, u) ==
  { e.tid : e \in { x \in sends : x.rid = rid /\ x.userId = u } }
    \cup { n.tid : n \in { x \in notifications : x.rid = rid /\ x.userId = u } }

\* C22: with one tick at a time and no call of MeetingService on the meeting,
\* no participant is notified for the same reminder row by more than one tick,
\* whatever sender or store call rejects during dispatch.
C22_Original ==
  opCount = 0 =>
    \A r \in DOMAIN reminders : \A u \in Users :
      Cardinality(NotifyingTicks(r, u)) <= 1

\* when no call rejects at all, the first tick that takes a row marks it and
\* no later tick notifies for it: a second notifying tick needs a rejection
C22_RenotifiedOnlyAfterRejection ==
  opCount = 0 =>
    \A r \in DOMAIN reminders : \A u \in Users :
      Cardinality(NotifyingTicks(r, u)) > 1 => failures > 0

\* the tick in slot x has taken row r and has not gone through it yet
InFlight(x, r) ==
  /\ tpc[x] # "idle"
  /\ \E i \in ri[x]..Len(batch[x]) : batch[x][i].id = r

\* the tick in slot t has gone through row r and marked it sent
MarkedBy(t, r) ==
  \E i \in Processed(t) : batch[t][i].id = r /\ outcome[t][i] = "sent"

\* C23: nothing keeps a tick from starting while another is running, and its
\* selection takes every due row, also the rows the running tick has taken
\* and not yet marked; a tick that reaches the mark-sent update of a row that
\* exists writes sentAt = now whether or not the row was already marked.
C23_OverlappingTicksBothDispatch ==
  /\ [][\A t \in TickSlots : \A x \in TickSlots \ {t} :
          Selects(t) =>
            \A r \in DOMAIN reminders :
              (InFlight(x, r) /\ DueAt(r, now)) =>
                \E j \in DOMAIN batch'[t] : batch'[t][j].id = r]_vars
  /\ [][\A t \in TickSlots :
          (tpc[t] = "mark" /\ ri'[t] = ri[t] + 1 /\ failures' = failures
             /\ Cur(t).id \in DOMAIN reminders) =>
            /\ reminders'[Cur(t).id].sentAt = now
            /\ outcome'[t][ri[t]] = "sent"]_vars

\* both ticks selected the same row, both notified u1 for it and both marked
\* it sent
C23_Witness ==
  \E r \in DOMAIN reminders :
    /\ MarkedBy("t1", r)
    /\ MarkedBy("t2", r)
    /\ tid["t1"] # tid["t2"]
    /\ NotifyingTicks(r, "u1") = {tid["t1"], tid["t2"]}
    /\ RowMarked(r)

\* the meeting m is cancelled in the store
IsCancelled(m) == m \in DOMAIN meetings /\ meetings[m].isCancelled

\* C24: once cancel has set isCancelled on a meeting, no step writes a
\* Notification or calls the e-mail or push sender for a reminder of that
\* meeting, also in a tick that selected the reminder before the cancellation.
C24_Original ==
  [][/\ \A e \in sends' \ sends : ~IsCancelled(e.meetingId)
     /\ \A n \in notifications' \ notifications :
          ~IsCancelled(n.relatedMeetingId)]_vars

\* a tick that selects once the meeting is cancelled takes none of its rows,
\* so every notification for a cancelled meeting comes from a tick whose
\* selection saw the meeting uncancelled
C24_OnlyTicksSelectedBefore ==
  [][\A t \in TickSlots :
       Selects(t) =>
         \A j \in DOMAIN batch'[t] : ~IsCancelled(batch'[t][j].meetingId)]_vars

\* the start time of the meeting of row r
StartOf(r) == meetings[reminders[r].meetingId].startTime

\* row r is pending, its meeting is not cancelled and starts at least one
\* tick interval from now
PendingAhead(r) ==
  /\ r \in DOMAIN reminders
  /\ reminders[r].sentAt = NULL
  /\ ~IsCancelled(reminders[r].meetingId)
  /\ now + 1 <= StartOf(r)

\* row r is marked sent and some tick went through all its participants
DispatchedAndMarked(r) ==
  /\ r \in DOMAIN reminders
  /\ RowMarked(r)
  /\ \E k \in 1..tickCount : AllAttempted(k, Snapshot(r))

LeadTicks(m, l, u) ==
  { n.tid : n \in { x \in notifications :
                      /\ x.relatedMeetingId = m
                      /\ x.minutesBefore = l
                      /\ x.userId = u } }

\* C26: while every update carries the start time and the lead times the
\* meeting already has, a lead time's reminder is dispatched to a participant
\* by one tick at most: once sent, no later tick dispatches it again.
C26_Original ==
  \A m \in MeetingIds : \A l \in 0..MaxTime : \A u \in Users :
    Cardinality(LeadTicks(m, l, u)) <= 1

\* an update whose input has neither startTime nor reminderMinutesBefore
\* returns after the meeting write and leaves the reminder rows alone
C26_PlainUpdateKeepsRows ==
  [][\A q \in Requests :
       (opc[q] = "update:write" /\ ~oarg[q].hasStart /\ ~oarg[q].hasLeads) =>
         (opc'[q] # "update:write" => opc'[q] = "idle" /\ reminders' = reminders)]_vars

\* no call of MeetingService is in progress
Quiet == \A q \in Requests : opc[q] = "idle"

\* C27: whenever no create or update call is in progress, every reminder row
\* has scheduledFor = startTime of its meeting - minutesBefore, and its
\* minutesBefore is an element of the meeting's reminderMinutesBefore, under
\* any interleaving of concurrent updates of the meeting.
C27_Original ==
  Quiet =>
    \A r \in DOMAIN reminders :
      /\ reminders[r].meetingId \in DOMAIN meetings
      /\ reminders[r].scheduledFor =
           ScheduledFor(StartOf(r), reminders[r].minutesBefore)
      /\ reminders[r].minutesBefore \in
           Elements(meetings[reminders[r].meetingId].reminderMinutesBefore)

\* C28: whenever no call of MeetingService is in progress, a cancelled meeting
\* has no reminder row, under any interleaving of cancel with a concurrent
\* update of the meeting.
C28_Original ==
  Quiet =>
    \A m \in DOMAIN meetings :
      meetings[m].isCancelled => RowsOf(reminders, m) = {}

\* the tick in slot t runs the mark-sent update of a row that is gone
MarksDeletedRow(t) ==
  /\ tpc[t] = "mark"
  /\ Cur(t).id \notin DOMAIN reminders
  /\ ri'[t] # ri[t]

\* C29: when the row of the reminder a tick is working on has been deleted
\* before the mark-sent update, the update rejects: the step writes no row
\* (the row is not re-created, no other row is marked) and hands out no id,
\* the reminder ends with the update failure, and the tick goes on with the
\* next reminder of its batch instead of ending.
C29_DeletedRowFailsAlone ==
  [][\A t \in TickSlots :
       MarksDeletedRow(t) =>
         /\ reminders' = reminders
         /\ nextId' = nextId
         /\ outcome'[t] = Append(outcome[t], "threw:update")
         /\ batch'[t] = batch[t]
         /\ ri'[t] = ri[t] + 1
         /\ ri[t] < Len(batch[t]) => tpc'[t] # "idle"]_vars

\* the first reminder of a batch of two failed at its mark-sent update
\* because the row was deleted; the tick then notified u1 for the second
\* reminder and went through that one as well
C29_Witness ==
  /\ Len(batch["t1"]) = 2
  /\ Len(outcome["t1"]) = 2
  /\ outcome["t1"][1] = "threw:update"
  /\ batch["t1"][1].id \notin DOMAIN reminders
  /\ Notified(tid["t1"], batch["t1"][1].id, "u1")
  /\ Notified(tid["t1"], batch["t1"][2].id, "u1")
  /\ tpc["t1"] = "idle"

\* C30: every reminder row has emailSent = pushSent = inAppCreated =
\* (sentAt is not null): rows are inserted pending, with sentAt null and the
\* three flags false, and the one write that changes a row sets sentAt and the
\* three flags together, whatever the preferences and the participants are.
C30_FlagsFollowSentAt ==
  /\ [](\A r \in DOMAIN reminders : RowMarked(r) \/ RowPending(r))
  /\ [][\A r \in DOMAIN reminders' :
          IF r \in DOMAIN reminders
          THEN \/ reminders'[r] = reminders[r]
               \/ RowMarked(r)'
          ELSE RowPending(r)']_vars

\* a row inserted by update's regeneration (create inserts two rows at most)
\* is marked sent with all three flags set, although u2, an account-linked
\* participant, has every channel disabled and got nothing for it; another
\* row is still pending
C30_Witness ==
  \E r \in DOMAIN reminders :
    /\ r > 2
    /\ RowMarked(r)
    /\ Sent(tid["t1"], r, "u1", "push")
    /\ ~PrefOn("u2", "push")
    /\ \A e \in sends : e.userId # "u2"
    /\ \A n \in notifications : n.userId # "u2"
    /\ \E x \in DOMAIN reminders : RowPending(x)

====
